---- MODULE Spec2Model ----
(***************************************************************************)
(* BearCart dashboard: the traffic section's calculateMetrics              *)
(* (client/src/components/dashboard/sections/Traffic.jsx) and the          *)
(* useDashboardData hook (client/src/hooks/useDashBoardData.js).           *)
(*                                                                         *)
(* Representation of JavaScript values:                                    *)
(*  - an array is a sequence; a row is a record;                           *)
(*  - a missing or empty string field is "" (both are falsy for ||);       *)
(*  - created_at is the sequence of its space separated parts, the first   *)
(*    part (the date) being <<year, month, day>>;                          *)
(*  - a number that results from a division is a fraction [num, den];      *)
(*    den = 0 encodes the IEEE results: num = 0 is NaN, num # 0 Infinity;  *)
(*  - a plain object used as a map is a function on its keys where only    *)
(*    its values are read, and a sequence of entries in property order     *)
(*    where Object.values / Object.entries order is observable.            *)
(***************************************************************************)
EXTENDS Integers, Sequences, FiniteSets, TLC

VARIABLES
  \* module-level imports of useDashBoardData.js (static JSON)
  ordersRaw, orderItemsRaw, refundsRaw, productsRaw, sessionsRaw, pageviewsRaw,
  faults,          \* which imported dataCleaners computations throw
  capped,          \* the hook is the version with the row cap
                   \* (useDashBoardData.js) or the one without it
  \* useDashboardData
  mounted,         \* the component using the hook is mounted
  isLoading, error,
  processedData,   \* useMemo cell of lines 34-96
  memo,            \* useMemo cells of lines 102-173: name -> [deps, value]
  computeCount,    \* name -> how many times the memo callback has run
  pendingRender,   \* a state update has scheduled a re-render
  parentRenders,   \* re-renders caused by the component's parent so far
  effect,          \* last run of the loading effect: its deps and its timer
  timers,          \* pending setTimeout callbacks (closures)
  nextTimerId,
  uncaught,        \* an exception left a callback uncaught
  renders,         \* renders of the hook so far
  \* TrafficSection
  props,           \* { sessions, pageviews } with the arrays' identities
  trafficMetrics,  \* const metrics = calculateMetrics()
  view,            \* the ratios computed in the JSX
  tRenders,        \* renders of TrafficSection so far
  tComputeCount    \* calls of calculateMetrics so far

hookVars == <<ordersRaw, orderItemsRaw, refundsRaw, productsRaw, sessionsRaw,
              pageviewsRaw, faults, capped, mounted, isLoading, error, processedData,
              memo, computeCount, pendingRender, parentRenders, effect, timers, nextTimerId, uncaught,
              renders>>
trafficVars == <<props, trafficMetrics, view, tRenders, tComputeCount>>
vars == <<hookVars, trafficVars>>

-----------------------------------------------------------------------------
(* Bounds of the model *)

MaxJoinSessions == 2
MaxPageviews == 3
MaxFieldSessions == 2
MaxDateSessions == 3
MaxRenders == 2
MaxParentRenders == 1
MaxSourceSessions == 3

-----------------------------------------------------------------------------
(* JavaScript helpers *)

Min(a, b) == IF a < b THEN a ELSE b

Range(s) == {s[i] : i \in 1..Len(s)}

SeqsUpTo(S, n) == UNION {[1..k -> S] : k \in 0..n}

\* a / b on numbers: x/0 is Infinity (x > 0) or NaN (x = 0)
JSDiv(a, b) == [num |-> a, den |-> b]

\* r * k for a fraction r and an integer k > 0 (NaN and Infinity are kept)
JSMul(r, k) == [num |-> r.num * k, den |-> r.den]

Zero == [num |-> 0, den |-> 1]

IsNaN(r) == r.den = 0 /\ r.num = 0
IsInfinity(r) == r.den = 0 /\ r.num # 0
IsFinite(r) == r.den # 0
NumEq(r, q) == IsFinite(r) /\ IsFinite(q) /\ r.num * q.den = q.num * r.den
\* r <= q for finite r, q with positive denominators
NumLe(r, q) == IsFinite(r) /\ IsFinite(q) /\ r.num * q.den <= q.num * r.den
FromInt(n) == [num |-> n, den |-> 1]

\* String.prototype.toLowerCase on the strings the model uses
ToLowerCase(s) ==
  CASE s = "Desktop" -> "desktop"
    [] s = "Mobile" -> "mobile"
    [] s = "MOBILE" -> "mobile"
    [] OTHER -> s

\* a || b on strings: "" (like undefined) is falsy
OrElse(a, b) == IF a = "" THEN b ELSE a

FirstIndex(ks, k) == CHOOSE i \in 1..Len(ks) : ks[i] = k /\ \A j \in 1..(i - 1) : ks[j] # k

\* The distinct elements of ks in order of first occurrence: the order in
\* which Object.values returns the properties a reduce has inserted when no
\* key is an array index (the dates YYYY-MM-DD of trafficByDate)
FirstOccurrenceOrder(ks) ==
  LET K == Range(ks)
      pos(k) == Cardinality({k2 \in K : FirstIndex(ks, k2) < FirstIndex(ks, k)}) + 1
  IN [j \in 1..Cardinality(K) |-> CHOOSE k \in K : pos(k) = j]

\* The number a property name stands for when it is an array index (the
\* canonical decimal form of an integer from 0 to 2^32 - 2), -1 otherwise; on
\* the strings the model uses
ArrayIndex(s) ==
  CASE s = "0" -> 0 [] s = "1" -> 1 [] s = "2" -> 2 [] s = "3" -> 3 [] s = "4" -> 4
    [] s = "5" -> 5 [] s = "6" -> 6 [] s = "7" -> 7 [] s = "8" -> 8 [] s = "9" -> 9
    [] s = "10" -> 10 [] s = "2023" -> 2023 [] s = "2024" -> 2024
    [] OTHER -> 0 - 1

\* The order in which Object.values and Object.entries return the string
\* keys ks that a reduce has inserted in this order: the array indices first,
\* in ascending numeric order, then the other keys in order of insertion
InsertionOrder(ks) ==
  LET K == Range(ks)
      I == {k \in K : ArrayIndex(k) >= 0}
      pos(k) == IF k \in I
                THEN Cardinality({k2 \in I : ArrayIndex(k2) < ArrayIndex(k)}) + 1
                ELSE Cardinality(I)
                       + Cardinality({k2 \in K \ I : FirstIndex(ks, k2) < FirstIndex(ks, k)}) + 1
  IN [j \in 1..Cardinality(K) |-> CHOOSE k \in K : pos(k) = j]

\* Array.prototype.sort (stable since ES2019) with a comparator whose sign is
\* the sign of key[i] - key[j]: element i goes after every element with a
\* smaller key and after every earlier element with an equal key.
StableSortAsc(s, key) ==
  LET n == Len(s)
      pos(i) == Cardinality({j \in 1..n : key[j] < key[i] \/ (key[j] = key[i] /\ j < i)}) + 1
  IN [p \in 1..n |-> s[CHOOSE i \in 1..n : pos(i) = p]]

\* slice(0, n)
Slice0(s, n) == SubSeq(s, 1, Min(Len(s), n))

\* new Date("YYYY-MM-DD") as days since 1970-01-01 (the value in milliseconds
\* is 86400000 times this; a difference of two dates has the same sign)
DateValue(date) ==
  LET y == IF date[2] <= 2 THEN date[1] - 1 ELSE date[1]
      era == y \div 400
      yoe == y - era * 400
      mp == IF date[2] > 2 THEN date[2] - 3 ELSE date[2] + 9
      doy == (153 * mp + 2) \div 5 + date[3] - 1
      doe == yoe * 365 + yoe \div 4 - yoe \div 100 + doy
  IN era * 146097 + doe - 719468

-----------------------------------------------------------------------------
(* TrafficSection: calculateMetrics *)

TotalSessions(sessions) == Len(sessions)

\* UniqueUsers counted over the user ids and the session ids together
UniqueUsersAndSessions(sessions) ==
  Cardinality({<<"user", sessions[i].user_id>> : i \in 1..Len(sessions)}
                \cup {<<"session", sessions[i].website_session_id>> : i \in 1..Len(sessions)})

UniqueUsers(sessions) == Cardinality({sessions[i].user_id : i \in 1..Len(sessions)})

DeviceOf(session) == OrElse(ToLowerCase(session.device_type), "unknown")

\* DeviceCounts where a session without device_type is not counted (no
\* default key)
DeviceCountsWithoutDefault(sessions) ==
  LET keys == {DeviceOf(sessions[i]) : i \in 1..Len(sessions)}
  IN [d \in keys |->
        Cardinality({i \in 1..Len(sessions) :
                       sessions[i].device_type # "" /\ DeviceOf(sessions[i]) = d})]

DeviceCounts(sessions) ==
  LET keys == {DeviceOf(sessions[i]) : i \in 1..Len(sessions)}
  IN [d \in keys |-> Cardinality({i \in 1..Len(sessions) : DeviceOf(sessions[i]) = d})]

NewSessions(sessions) ==
  Cardinality({i \in 1..Len(sessions) : sessions[i].is_repeat_session = "0"})

\* ReturningSessions as the sessions that are not new (is_repeat_session !== "0")
ReturningSessionsNotNew(sessions) ==
  Cardinality({i \in 1..Len(sessions) : sessions[i].is_repeat_session # "0"})

ReturningSessions(sessions) ==
  Cardinality({i \in 1..Len(sessions) : sessions[i].is_repeat_session = "1"})

SessionPageviewCounts(pageviews) ==
  LET keys == {pageviews[i].website_session_id : i \in 1..Len(pageviews)}
  IN [k \in keys |->
        Cardinality({i \in 1..Len(pageviews) : pageviews[i].website_session_id = k})]

BouncedSessions(pageviews) ==
  LET counts == SessionPageviewCounts(pageviews)
  IN Cardinality({k \in DOMAIN counts : counts[k] = 1})

BounceRate(sessions, pageviews) ==
  IF TotalSessions(sessions) > 0
  THEN JSMul(JSDiv(BouncedSessions(pageviews), TotalSessions(sessions)), 100)
  ELSE Zero

AvgPagesPerSession(sessions, pageviews) ==
  IF TotalSessions(sessions) > 0
  THEN JSDiv(Len(pageviews), TotalSessions(sessions))
  ELSE Zero

SourceOf(session) == OrElse(session.utm_source, "direct")

SourceData(sessions) ==
  LET n == Len(sessions)
      keys == InsertionOrder([i \in 1..n |-> SourceOf(sessions[i])])
  IN [j \in 1..Len(keys) |->
        [source |-> keys[j],
         sessions |-> Cardinality({i \in 1..n : SourceOf(sessions[i]) = keys[j]}),
         users |-> Cardinality({sessions[i].user_id :
                                  i \in {i2 \in 1..n : SourceOf(sessions[i2]) = keys[j]}})]]

CampaignOf(session) == OrElse(session.utm_campaign, "none")

CampaignData(sessions) ==
  LET n == Len(sessions)
      keys == InsertionOrder([i \in 1..n |-> CampaignOf(sessions[i])])
  IN [j \in 1..Len(keys) |->
        [campaign |-> keys[j],
         sessions |-> Cardinality({i \in 1..n : CampaignOf(sessions[i]) = keys[j]})]]

\* session.created_at.split(' ')[0]
DateOf(session) == session.created_at[1]

TrafficByDate(sessions) ==
  LET n == Len(sessions)
      keys == FirstOccurrenceOrder([i \in 1..n |-> DateOf(sessions[i])])
      on(d) == {i \in 1..n : DateOf(sessions[i]) = d}
  IN [j \in 1..Len(keys) |->
        [date |-> keys[j],
         sessions |-> Cardinality(on(keys[j])),
         desktop |-> Cardinality({i \in on(keys[j]) :
                                    ToLowerCase(sessions[i].device_type) = "desktop"}),
         mobile |-> Cardinality({i \in on(keys[j]) :
                                   ToLowerCase(sessions[i].device_type) = "mobile"})]]

\* TimelineData as it would be without the sort (Object.values order)
TimelineDataUnsorted(sessions) == TrafficByDate(sessions)

\* TimelineData as it would be with the comparator's operands swapped
TimelineDataDescending(sessions) ==
  LET byDate == TrafficByDate(sessions)
  IN StableSortAsc(byDate, [j \in 1..Len(byDate) |-> 0 - DateValue(byDate[j].date)])

TimelineData(sessions) ==
  LET byDate == TrafficByDate(sessions)
  IN StableSortAsc(byDate, [j \in 1..Len(byDate) |-> DateValue(byDate[j].date)])

\* the first pageview of each session id, in input order
FirstPageviews(pageviews) ==
  {i \in 1..Len(pageviews) :
     \A j \in 1..(i - 1) : pageviews[j].website_session_id # pageviews[i].website_session_id}

UrlOf(pv) == OrElse(pv.pageview_url, "/")

LandingPages(pageviews) ==
  LET first == FirstPageviews(pageviews)
      firstSeq == [p \in 1..Cardinality(first) |->
                     pageviews[CHOOSE i \in first :
                                 Cardinality({j \in first : j < i}) = p - 1]]
      keys == InsertionOrder([p \in 1..Len(firstSeq) |-> UrlOf(firstSeq[p])])
  IN [j \in 1..Len(keys) |->
        [url |-> keys[j],
         sessions |-> Cardinality({i \in first : UrlOf(pageviews[i]) = keys[j]})]]

\* TopLandingPages as it would be without the sort (Object.entries order)
TopLandingPagesUnsorted(pageviews) == LandingPages(pageviews)

TopLandingPages(pageviews) ==
  LET pages == LandingPages(pageviews)
  IN StableSortAsc(pages, [j \in 1..Len(pages) |-> 0 - pages[j].sessions])

calculateMetrics(sessions, pageviews) ==
  [totalSessions |-> TotalSessions(sessions),
   uniqueUsers |-> UniqueUsers(sessions),
   bounceRate |-> BounceRate(sessions, pageviews),
   avgPagesPerSession |-> AvgPagesPerSession(sessions, pageviews),
   deviceCounts |-> DeviceCounts(sessions),
   newSessions |-> NewSessions(sessions),
   returningSessions |-> ReturningSessions(sessions),
   sourceData |-> SourceData(sessions),
   campaignData |-> CampaignData(sessions),
   timelineData |-> TimelineData(sessions),
   topLandingPages |-> TopLandingPages(pageviews)]

\* The ratios the JSX computes from metrics (lines 182 and 263-271)
ReturningVisitors(m) == JSMul(JSDiv(m.returningSessions, m.totalSessions), 100)

LandingShares(m) ==
  LET top == Slice0(m.topLandingPages, 5)
  IN [j \in 1..Len(top) |-> JSMul(JSDiv(top[j].sessions, m.totalSessions), 100)]

\* sourceData.sort((a, b) => b.sessions - a.sessions)
SortBySessionsDescending(sourceData) ==
  StableSortAsc(sourceData, [j \in 1..Len(sourceData) |-> 0 - sourceData[j].sessions])

\* metrics.sourceData.sort((a, b) => b.sessions - a.sessions).slice(0, 5)
SourceTable(m) == Slice0(SortBySessionsDescending(m.sourceData), 5)

\* Array.prototype.sort sorts in place: after the JSX has been evaluated
\* metrics.sourceData, the array also given to the source chart, is sorted
MetricsAfterRender(m) ==
  [m EXCEPT !.sourceData = SortBySessionsDescending(m.sourceData)]

TrafficView(m) ==
  [returningVisitors |-> ReturningVisitors(m),
   landingShares |-> LandingShares(m),
   sourceTable |-> SourceTable(m)]

-----------------------------------------------------------------------------
(* useDashboardData: raw data, row cap, cleaners and calculators *)

LIMIT_ROWS == 500

\* A JSON import: an array of rows, or a value that is no array (null, or an
\* object such as {})
ArrayOf(rows) == [kind |-> "array", rows |-> rows]
JsonNull == [kind |-> "null", rows |-> <<>>]
JsonObject == [kind |-> "object", rows |-> <<>>]

IsArray(raw) == raw.kind = "array"

\* Limited with the cap one row short: raw.slice(0, LIMIT_ROWS - 1)
LimitedOneShort(raw) == IF IsArray(raw) THEN Slice0(raw.rows, LIMIT_ROWS - 1) ELSE <<>>

\* Array.isArray(raw) ? raw.slice(0, LIMIT_ROWS) : []
Limited(raw) == IF IsArray(raw) THEN Slice0(raw.rows, LIMIT_ROWS) ELSE <<>>

\* Reading raw.length throws a TypeError on null
LengthThrows(raw) == raw.kind = "null"

\* raw.length > 0 (undefined > 0 is false)
LengthPositive(raw) == IsArray(raw) /\ Len(raw.rows) > 0

\* React state `error`: null is <<>>, a string s is <<s>>
Null == <<>>
Str(s) == <<s>>
Truthy(e) == e # Null /\ e[1] # ""

\* dataCleaners: a row whose identifying field cannot be coerced (0 here) is
\* dropped, a monetary field is coerced to a non-negative number
NonNegative(n) == IF n < 0 THEN 0 ELSE n

\* A cleaner takes what the hook hands it (an array, or an import that is no
\* array): no array gives the empty array, a row without id is dropped
RowsOf(data) == IF IsArray(data) THEN data.rows ELSE <<>>

cleanOrdersData(data) ==
  LET kept == SelectSeq(RowsOf(data), LAMBDA r : r.id # 0)
  IN [i \in 1..Len(kept) |-> [kept[i] EXCEPT !.total_amount = NonNegative(@)]]

cleanOrderItemsData(data) ==
  LET kept == SelectSeq(RowsOf(data), LAMBDA r : r.id # 0)
  IN [i \in 1..Len(kept) |-> [kept[i] EXCEPT !.price = NonNegative(@)]]

cleanRefundsData(data) ==
  LET kept == SelectSeq(RowsOf(data), LAMBDA r : r.order_item_id # 0)
  IN [i \in 1..Len(kept) |-> [kept[i] EXCEPT !.amount = NonNegative(@)]]

cleanProductsData(data) == SelectSeq(RowsOf(data), LAMBDA r : r.id # 0)

cleanSessionsData(data) == SelectSeq(RowsOf(data), LAMBDA r : r.website_session_id # 0)

cleanPageviewsData(data) == SelectSeq(RowsOf(data), LAMBDA r : r.website_session_id # 0)

RECURSIVE SumUpTo(_, _)
SumUpTo(amounts, n) == IF n = 0 THEN 0 ELSE SumUpTo(amounts, n - 1) + amounts[n]

Sum(amounts) == SumUpTo(amounts, Len(amounts))

calculateTotalRevenue(orders) == Sum([i \in 1..Len(orders) |-> orders[i].total_amount])

calculateTotalRefunds(refunds) == Sum([i \in 1..Len(refunds) |-> refunds[i].amount])

calculateRefundRate(orders, refunds) ==
  IF calculateTotalRevenue(orders) > 0
  THEN JSDiv(calculateTotalRefunds(refunds), calculateTotalRevenue(orders))
  ELSE Zero

calculateAOV(orders) ==
  IF Len(orders) > 0 THEN JSDiv(calculateTotalRevenue(orders), Len(orders)) ELSE Zero

\* group by a period key, sum total_amount, ascending by period
PeriodRank(period) == IF Len(period) = 2 THEN period[1] * 12 + period[2] ELSE period[1]

RevenueBy(orders, periods) ==
  LET n == Len(orders)
      keys == FirstOccurrenceOrder(periods)
      rows == [j \in 1..Len(keys) |->
                 [period |-> keys[j],
                  revenue |-> Sum([i \in 1..n |-> IF periods[i] = keys[j]
                                                  THEN orders[i].total_amount ELSE 0])]]
  IN StableSortAsc(rows, [j \in 1..Len(rows) |-> PeriodRank(rows[j].period)])

MonthOf(order) == <<order.created_at[1][1], order.created_at[1][2]>>
YearOf(order) == <<order.created_at[1][1]>>

aggregateRevenueByMonth(orders) ==
  RevenueBy(orders, [i \in 1..Len(orders) |-> MonthOf(orders[i])])

aggregateRevenueByYear(orders) ==
  RevenueBy(orders, [i \in 1..Len(orders) |-> YearOf(orders[i])])

\* join order items to products; items of a missing product are excluded
getOrdersByProduct(orderItems, products) ==
  LET n == Len(orderItems)
      known == {products[i].id : i \in 1..Len(products)}
      name(id) == (CHOOSE q \in Range(products) : q.id = id).name
      keys == FirstOccurrenceOrder(SelectSeq([i \in 1..n |-> orderItems[i].product_id],
                                             LAMBDA id : id \in known))
      rows == [j \in 1..Len(keys) |->
                 [product |-> name(keys[j]),
                  quantity |-> Sum([i \in 1..n |-> IF orderItems[i].product_id = keys[j]
                                                   THEN orderItems[i].quantity ELSE 0]),
                  revenue |-> Sum([i \in 1..n |-> IF orderItems[i].product_id = keys[j]
                                                  THEN orderItems[i].quantity * orderItems[i].price
                                                  ELSE 0])]]
  IN StableSortAsc(rows, [j \in 1..Len(rows) |-> 0 - rows[j].revenue])

\* join refunds to order items to products; unmatched refunds are excluded
getRefundsByProduct(refunds, orderItems, products) ==
  LET n == Len(refunds)
      known == {products[i].id : i \in 1..Len(products)}
      items == {orderItems[i].id : i \in 1..Len(orderItems)}
      productOf(itemId) == (CHOOSE it \in Range(orderItems) : it.id = itemId).product_id
      name(id) == (CHOOSE q \in Range(products) : q.id = id).name
      matched == SelectSeq(refunds, LAMBDA r : r.order_item_id \in items
                                               /\ productOf(r.order_item_id) \in known)
      keys == FirstOccurrenceOrder([i \in 1..Len(matched) |->
                                      productOf(matched[i].order_item_id)])
      rows == [j \in 1..Len(keys) |->
                 [product |-> name(keys[j]),
                  amount |-> Sum([i \in 1..Len(matched) |->
                                    IF productOf(matched[i].order_item_id) = keys[j]
                                    THEN matched[i].amount ELSE 0])]]
  IN StableSortAsc(rows, [j \in 1..Len(rows) |-> 0 - rows[j].amount])

-----------------------------------------------------------------------------
(* useDashboardData: the hook *)

EmptyData == [orders |-> <<>>, orderItems |-> <<>>, refunds |-> <<>>,
              products |-> <<>>, sessions |-> <<>>, pageviews |-> <<>>]

\* What the hook hands to a cleaner: the limited array (lines 39-56), or, in
\* the version without the cap, the raw import itself, array or not
Handed(raw) == IF capped THEN ArrayOf(Limited(raw)) ELSE raw

LimitedData ==
  [orders |-> Handed(ordersRaw), orderItems |-> Handed(orderItemsRaw),
   refunds |-> Handed(refundsRaw), products |-> Handed(productsRaw),
   sessions |-> Handed(sessionsRaw), pageviews |-> Handed(pageviewsRaw)]

\* lines 67-72
CleanedData(l) ==
  [orders |-> cleanOrdersData(l.orders), orderItems |-> cleanOrderItemsData(l.orderItems),
   refunds |-> cleanRefundsData(l.refunds), products |-> cleanProductsData(l.products),
   sessions |-> cleanSessionsData(l.sessions), pageviews |-> cleanPageviewsData(l.pageviews)]

CleanThrows == faults \cap {"clean", "cleanNoMessage"} # {}

\* err.message of the exception a cleaner throws
ErrMessage == IF "cleanNoMessage" \in faults THEN "" ELSE "boom"

\* The callback of useMemo(..., []): the arrays it returns are allocated in
\* render number `render`, which identifies them (ref)
ProcessData(render) ==
  [set |-> TRUE, ref |-> render, limited |-> LimitedData,
   value |-> IF CleanThrows THEN EmptyData ELSE CleanedData(LimitedData)]

\* setError(err.message || "Failed to process data") in the catch block
ProcessError == Str(OrElse(ErrMessage, "Failed to process data"))

NoData ==
  [set |-> FALSE, ref |-> 0, limited |-> [n \in DOMAIN EmptyData |-> ArrayOf(<<>>)],
   value |-> EmptyData]

MemoNames == {"metrics", "revenueByMonth", "revenueByYear", "refundsByProduct",
              "ordersByProduct"}

\* the identity of array `name` of processedData
Ref(pd, name) == <<name, pd.ref>>

\* the dependency arrays of lines 136, 146, 155, 164, 173
MemoDeps(name, pd) ==
  CASE name = "metrics" ->
         <<Ref(pd, "orders"), Ref(pd, "refunds"), Ref(pd, "sessions"), Ref(pd, "pageviews")>>
    [] name = "revenueByMonth" -> <<Ref(pd, "orders")>>
    [] name = "revenueByYear" -> <<Ref(pd, "orders")>>
    [] name = "refundsByProduct" ->
         <<Ref(pd, "refunds"), Ref(pd, "orderItems"), Ref(pd, "products")>>
    [] name = "ordersByProduct" -> <<Ref(pd, "orderItems"), Ref(pd, "products")>>

\* limited: LIMIT_ROWS, the field the version with the cap adds to metrics
WithLimit(m) ==
  IF capped
  THEN [f \in DOMAIN m \cup {"limited"} |-> IF f = "limited" THEN LIMIT_ROWS ELSE m[f]]
  ELSE m

MetricsFallback ==
  WithLimit([totalOrders |-> 0, totalRevenue |-> 0, totalRefunds |-> 0,
             refundRate |-> Zero, aov |-> Zero, netRevenue |-> 0, totalSessions |-> 0,
             totalPageviews |-> 0, totalProducts |-> 0])

\* lines 102-135
Metrics(d) ==
  IF "metrics" \in faults THEN MetricsFallback
  ELSE WithLimit(
         [totalOrders |-> Len(d.orders),
          totalRevenue |-> calculateTotalRevenue(d.orders),
          totalRefunds |-> calculateTotalRefunds(d.refunds),
          refundRate |-> calculateRefundRate(d.orders, d.refunds),
          aov |-> calculateAOV(d.orders),
          netRevenue |-> calculateTotalRevenue(d.orders) - calculateTotalRefunds(d.refunds),
          totalSessions |-> Len(d.sessions),
          totalPageviews |-> Len(d.pageviews),
          totalProducts |-> Len(d.products)])

\* the callbacks of lines 102-173, each with its try/catch
MemoCompute(name, d) ==
  CASE name = "metrics" -> Metrics(d)
    [] name = "revenueByMonth" ->
         IF name \in faults THEN <<>> ELSE aggregateRevenueByMonth(d.orders)
    [] name = "revenueByYear" ->
         IF name \in faults THEN <<>> ELSE aggregateRevenueByYear(d.orders)
    [] name = "refundsByProduct" ->
         IF name \in faults THEN <<>>
         ELSE getRefundsByProduct(d.refunds, d.orderItems, d.products)
    [] name = "ordersByProduct" ->
         IF name \in faults THEN <<>> ELSE getOrdersByProduct(d.orderItems, d.products)

NoMemo == [set |-> FALSE, deps |-> <<>>, value |-> <<>>]

\* useMemo(callback, deps): the callback runs on the first render and when a
\* dependency is another object than on the previous render
MemoStale(cell, deps) == ~cell.set \/ cell.deps # deps

UseMemo(cell, name, pd) ==
  IF MemoStale(cell, MemoDeps(name, pd))
  THEN [set |-> TRUE, deps |-> MemoDeps(name, pd), value |-> MemoCompute(name, pd.value)]
  ELSE cell

\* useMemo(callback, []) of lines 34-96: the callback runs on the first render
UseProcessedData(cell, render) == IF cell.set THEN cell ELSE ProcessData(render)

\* One render of the component that calls useDashboardData, with the commit
\* and the effects that follow it.  A setError in the useMemo callback is a
\* render-phase update: React renders again at once with the new state and
\* the memoized values kept, so the committed render sees the new error.
HookRender ==
  LET pd == UseProcessedData(processedData, renders + 1)
      err == IF ~processedData.set /\ pd.set /\ CleanThrows THEN ProcessError ELSE error
      deps == <<Len(pd.value.orders), Len(pd.value.sessions), err>>
      run == ~effect.ran \/ effect.deps # deps
  IN /\ processedData' = pd
     /\ error' = err
     /\ memo' = [n \in MemoNames |-> UseMemo(memo[n], n, pd)]
     /\ computeCount' =
          [n \in MemoNames \cup {"processedData"} |->
             computeCount[n] +
               (IF n = "processedData"
                THEN (IF pd # processedData THEN 1 ELSE 0)
                ELSE (IF MemoStale(memo[n], MemoDeps(n, pd)) THEN 1 ELSE 0))]
     \* useEffect(..., [orders.length, sessions.length, error]): the cleanup
     \* clears the previous run's timer, then a new timer is set
     /\ effect' = IF run THEN [ran |-> TRUE, deps |-> deps, timer |-> nextTimerId] ELSE effect
     /\ timers' = IF run
                  THEN {t \in timers : t.id # effect.timer}
                         \cup {[id |-> nextTimerId, ordersLen |-> deps[1],
                                sessionsLen |-> deps[2], error |-> err]}
                  ELSE timers
     /\ nextTimerId' = IF run THEN nextTimerId + 1 ELSE nextTimerId
     /\ renders' = renders + 1
     /\ pendingRender' = FALSE
     /\ mounted' = TRUE
     /\ UNCHANGED <<ordersRaw, orderItemsRaw, refundsRaw, productsRaw, sessionsRaw,
                    pageviewsRaw, faults, capped, isLoading, uncaught>>

Mount == ~mounted /\ renders = 0 /\ HookRender /\ UNCHANGED <<parentRenders, trafficVars>>

\* the re-render React schedules after setError / setIsLoading changed state
StateRerender ==
  mounted /\ pendingRender /\ HookRender /\ UNCHANGED <<parentRenders, trafficVars>>

\* a re-render for any other reason (the parent rendered again)
ParentRerender ==
  /\ mounted /\ parentRenders < MaxParentRenders
  /\ HookRender
  /\ parentRenders' = parentRenders + 1
  /\ UNCHANGED trafficVars

\* the setTimeout callback of lines 177-189, with the orders, sessions and
\* error of the render that set it
TimerThrows(t) ==
  \/ t.ordersLen = 0 /\ LengthThrows(ordersRaw)
  \/ /\ ~(t.ordersLen = 0 /\ LengthPositive(ordersRaw))
     /\ t.sessionsLen = 0 /\ LengthThrows(sessionsRaw)

\* TimerError without the checks of the raw lengths (as in the hook's earlier
\* version: if (orders.length === 0) setError(...))
TimerErrorNoRawCheck(t) ==
  IF t.ordersLen = 0 THEN Str("Failed to load order data")
  ELSE IF t.sessionsLen = 0 THEN Str("Failed to load session data")
  ELSE IF Truthy(t.error) THEN error
  ELSE Null

\* TimerError where the orders check clears an error that is already set
\* instead of setting its message again
TimerErrorToggling(t) ==
  IF t.ordersLen = 0 /\ LengthPositive(ordersRaw)
  THEN (IF Truthy(t.error) THEN Null ELSE Str("Failed to load order data"))
  ELSE IF t.sessionsLen = 0 /\ LengthPositive(sessionsRaw)
       THEN Str("Failed to load session data")
  ELSE IF Truthy(t.error) THEN error
  ELSE Null

TimerError(t) ==
  IF t.ordersLen = 0 /\ LengthPositive(ordersRaw) THEN Str("Failed to load order data")
  ELSE IF t.sessionsLen = 0 /\ LengthPositive(sessionsRaw)
       THEN Str("Failed to load session data")
  ELSE IF Truthy(t.error) THEN error
  ELSE Null

TimerFire(t) ==
  /\ t \in timers
  /\ timers' = timers \ {t}
  /\ IF TimerThrows(t)
     THEN /\ uncaught' = TRUE
          /\ UNCHANGED <<error, isLoading, pendingRender>>
     ELSE /\ error' = TimerError(t)
          /\ isLoading' = FALSE
          /\ pendingRender' = (pendingRender \/ error' # error \/ isLoading)
          /\ UNCHANGED uncaught
  /\ UNCHANGED <<ordersRaw, orderItemsRaw, refundsRaw, productsRaw, sessionsRaw,
                 pageviewsRaw, faults, capped, mounted, processedData, memo, computeCount,
                 parentRenders, effect, nextTimerId, renders, trafficVars>>

\* the effect's cleanup on unmount: clearTimeout(timer)
Unmount ==
  /\ mounted
  /\ mounted' = FALSE
  /\ timers' = {t \in timers : t.id # effect.timer}
  /\ pendingRender' = FALSE
  /\ UNCHANGED <<ordersRaw, orderItemsRaw, refundsRaw, productsRaw, sessionsRaw,
                 pageviewsRaw, faults, capped, isLoading, error, processedData, memo,
                 computeCount, parentRenders, effect, nextTimerId, uncaught, renders,
                 trafficVars>>

\* One render of TrafficSection with props p: calculateMetrics() is called in
\* the component body
TrafficSectionRender(p) ==
  /\ tRenders < MaxRenders
  /\ props' = p
  /\ trafficMetrics' = MetricsAfterRender(calculateMetrics(p.sessions, p.pageviews))
  /\ view' = TrafficView(calculateMetrics(p.sessions, p.pageviews))
  /\ tRenders' = tRenders + 1
  /\ tComputeCount' = tComputeCount + 1
  /\ UNCHANGED hookVars

\* TrafficSection rendered with the arrays the hook returns
HookProps ==
  [sessions |-> processedData.value.sessions, pageviews |-> processedData.value.pageviews,
   sessionsRef |-> Ref(processedData, "sessions"),
   pageviewsRef |-> Ref(processedData, "pageviews")]

TrafficRenderFromHook == mounted /\ TrafficSectionRender(HookProps)

\* TrafficSection rendered with the props it was given
TrafficRender == tRenders = 0 /\ TrafficSectionRender(props)

-----------------------------------------------------------------------------
(* Inputs *)

Dates == {<<2011, 12, 31>>, <<2012, 2, 29>>, <<2012, 3, 1>>}

Profiles ==
  {[device_type |-> "desktop", is_repeat_session |-> "0", utm_source |-> "gsearch",
    utm_campaign |-> "brand"],
   [device_type |-> "Mobile", is_repeat_session |-> "1", utm_source |-> "",
    utm_campaign |-> ""],
   [device_type |-> "", is_repeat_session |-> "2", utm_source |-> "bsearch",
    utm_campaign |-> "brand"],
   [device_type |-> "mobile", is_repeat_session |-> "1", utm_source |-> "gsearch",
    utm_campaign |-> "nonbrand"]}

DefaultProfile == [device_type |-> "desktop", is_repeat_session |-> "0",
                   utm_source |-> "gsearch", utm_campaign |-> "brand"]

Session(id, user, profile, date) ==
  [website_session_id |-> id, user_id |-> user, created_at |-> <<date, "08:04:16">>,
   device_type |-> profile.device_type, is_repeat_session |-> profile.is_repeat_session,
   utm_source |-> profile.utm_source, utm_campaign |-> profile.utm_campaign]

Pageview(sid, url) == [website_session_id |-> sid, pageview_url |-> url]

Order(id, date, amount) ==
  [id |-> id, created_at |-> <<date, "10:00:00">>, total_amount |-> amount]

OrderItem(id, order, product, quantity, price) ==
  [id |-> id, order_id |-> order, product_id |-> product, quantity |-> quantity,
   price |-> price]

Refund(item, amount) == [order_item_id |-> item, amount |-> amount]

Product(id, name) == [id |-> id, name |-> name]

\* sequences of at most n distinct ids
DistinctIdSeqs(ids, n) ==
  {idx \in SeqsUpTo(ids, n) : \A i, j \in 1..Len(idx) : i # j => idx[i] # idx[j]}

\* sessions that differ in their ids only (in any order), and pageviews of
\* these and of other session ids
JoinSessions ==
  {[i \in 1..Len(idx) |-> Session(idx[i], idx[i], DefaultProfile, <<2012, 3, 1>>)] :
     idx \in DistinctIdSeqs(1..MaxJoinSessions, MaxJoinSessions)}

JoinPageviews ==
  SeqsUpTo({Pageview(sid, "/home") : sid \in 1..(MaxJoinSessions + 1)}, MaxPageviews)

\* pageviews that differ in session id and url
LandingPageviews ==
  SeqsUpTo({Pageview(sid, url) : sid \in 1..3, url \in {"/home", "/lander", ""}},
           MaxPageviews)

\* sessions (session i has id i) that differ in every other field
FieldSessions ==
  UNION {{[i \in 1..k |-> Session(i, f[i][1], f[i][2], f[i][3])] :
            f \in [1..k -> (1..2) \X Profiles \X {<<2012, 2, 29>>, <<2012, 3, 1>>}]} :
         k \in 0..MaxFieldSessions}

\* sessions that differ in date and device
DateSessions ==
  UNION {{[i \in 1..k |-> Session(i, 1, [DefaultProfile EXCEPT !.device_type = f[i][1]],
                                  f[i][2])] :
            f \in [1..k -> {"desktop", "MOBILE", ""} \X Dates]} : k \in 0..MaxDateSessions}

\* sessions that differ in source and campaign, some of them named by a number
SourceCampaigns ==
  {<<"bsearch", "brand">>, <<"gsearch", "nonbrand">>, <<"2", "2024">>, <<"1", "2023">>}

SourceSessions ==
  UNION {{[i \in 1..k |->
             Session(i, i, [DefaultProfile EXCEPT !.utm_source = f[i][1],
                                                  !.utm_campaign = f[i][2]],
                     <<2012, 3, 1>>)] :
            f \in [1..k -> SourceCampaigns]} : k \in 0..MaxSourceSessions}

NoRefs(sessions, pageviews) ==
  [sessions |-> sessions, pageviews |-> pageviews,
   sessionsRef |-> <<"sessions", 0>>, pageviewsRef |-> <<"pageviews", 0>>]

S1 == Session(1, 1, DefaultProfile, <<2012, 3, 1>>)
S2 == Session(2, 2, DefaultProfile, <<2012, 2, 29>>)

TrafficInputs ==
  {NoRefs(s, p) : s \in JoinSessions, p \in JoinPageviews}
    \cup {NoRefs(<<S1, S2>>, p) : p \in LandingPageviews}
    \cup {NoRefs(s, p) : s \in FieldSessions \cup DateSessions,
                         p \in {<<>>, <<Pageview(1, "/home"), Pageview(1, "/cart")>>}}
    \cup {NoRefs(s, <<Pageview(1, "/home")>>) : s \in SourceSessions}

OrdersChoices ==
  {JsonNull, JsonObject, ArrayOf(<<>>),
   ArrayOf(<<Order(1, <<2012, 3, 1>>, 100)>>),
   ArrayOf(<<Order(1, <<2012, 3, 1>>, 100), Order(2, <<2011, 12, 31>>, 50)>>),
   ArrayOf(<<Order(0, <<2012, 3, 1>>, 100)>>)}

RefundsChoices == {JsonObject, ArrayOf(<<>>), ArrayOf(<<Refund(1, 25)>>)}

OrderItemsChoices == {JsonNull, ArrayOf(<<OrderItem(1, 1, 1, 1, 100)>>)}

ProductsChoices == {JsonObject, ArrayOf(<<Product(1, "Mr. Fuzzy")>>)}

SessionsChoices ==
  {JsonNull, ArrayOf(<<>>), ArrayOf(<<S1>>), ArrayOf(<<S1, S2>>),
   ArrayOf(<<Session(0, 1, DefaultProfile, <<2012, 3, 1>>)>>),
   ArrayOf(<<Session(1, 1, [DefaultProfile EXCEPT !.utm_source = "bsearch"], <<2012, 3, 1>>),
             S2, Session(3, 2, DefaultProfile, <<2012, 3, 1>>)>>)}

PageviewsChoices ==
  {JsonObject, ArrayOf(<<>>), ArrayOf(<<Pageview(1, "/home")>>),
   ArrayOf(<<Pageview(1, "/home"), Pageview(2, "/lander"), Pageview(2, "/cart")>>)}

\* fill pageviews of session 1 followed by extra pageviews of session 2
LongPageviews(fill, extra) ==
  ArrayOf([i \in 1..(fill + extra) |->
             IF i <= fill THEN Pageview(1, "/home") ELSE Pageview(2, "/lander")])

MaxExtra == 2

LongPageviewsChoices ==
  {LongPageviews(fill, extra) : fill \in {LIMIT_ROWS - 1, LIMIT_ROWS}, extra \in 1..MaxExtra}

LongSessions ==
  ArrayOf([i \in 1..(LIMIT_ROWS + 1) |->
             Session(i, (i % 2) + 1, DefaultProfile, <<2012, 3, 1>>)])

Computations == MemoNames \cup {"clean", "cleanNoMessage"}

-----------------------------------------------------------------------------
(* Specifications *)

InitHook ==
  /\ mounted = FALSE /\ isLoading = TRUE /\ error = Null
  /\ processedData = NoData
  /\ memo = [n \in MemoNames |-> NoMemo]
  /\ computeCount = [n \in MemoNames \cup {"processedData"} |-> 0]
  /\ pendingRender = FALSE /\ parentRenders = 0
  /\ effect = [ran |-> FALSE, deps |-> <<0, 0, Null>>, timer |-> 0]
  /\ timers = {} /\ nextTimerId = 1 /\ uncaught = FALSE /\ renders = 0

InitTrafficSection(p) ==
  /\ props = p
  /\ trafficMetrics = [rendered |-> FALSE]
  /\ view = [rendered |-> FALSE]
  /\ tRenders = 0 /\ tComputeCount = 0

InitRaw ==
  \/ /\ ordersRaw \in OrdersChoices /\ refundsRaw \in RefundsChoices
     /\ orderItemsRaw \in OrderItemsChoices /\ productsRaw \in ProductsChoices
     /\ sessionsRaw \in SessionsChoices /\ pageviewsRaw \in PageviewsChoices
     /\ faults = {} /\ capped \in BOOLEAN
  \/ /\ ordersRaw \in {ArrayOf(<<>>), ArrayOf(<<Order(1, <<2012, 3, 1>>, 100)>>),
                       ArrayOf(<<Order(0, <<2012, 3, 1>>, 100)>>), JsonNull, JsonObject}
     /\ refundsRaw = ArrayOf(<<Refund(1, 25)>>)
     /\ orderItemsRaw = ArrayOf(<<OrderItem(1, 1, 1, 1, 100)>>)
     /\ productsRaw = ArrayOf(<<Product(1, "Mr. Fuzzy")>>)
     /\ sessionsRaw \in {ArrayOf(<<>>), ArrayOf(<<S1>>), JsonNull, JsonObject}
     /\ pageviewsRaw = ArrayOf(<<Pageview(1, "/home")>>)
     /\ faults \in {{c} : c \in Computations} /\ capped \in BOOLEAN
  \/ /\ ordersRaw = ArrayOf(<<Order(1, <<2012, 3, 1>>, 100)>>)
     /\ refundsRaw = ArrayOf(<<>>)
     /\ orderItemsRaw = ArrayOf(<<OrderItem(1, 1, 1, 1, 100)>>)
     /\ productsRaw = ArrayOf(<<Product(1, "Mr. Fuzzy")>>)
     /\ sessionsRaw \in {ArrayOf(<<S1, S2>>), LongSessions}
     /\ pageviewsRaw \in LongPageviewsChoices
     /\ faults = {} /\ capped \in BOOLEAN

Init == InitRaw /\ InitHook /\ InitTrafficSection(NoRefs(<<>>, <<>>))

Next ==
  \/ Mount
  \/ StateRerender
  \/ ParentRerender
  \/ \E t \in timers : TimerFire(t)
  \/ Unmount
  \/ TrafficRenderFromHook

Spec == Init /\ [][Next]_vars

\* The hook with its scheduling: React runs a re-render it has scheduled, and
\* a pending setTimeout callback runs once its delay has passed unless it is
\* cleared first
SpecLive ==
  /\ Spec
  /\ WF_vars(StateRerender)
  /\ WF_vars(\E t \in timers : TimerFire(t))

\* calculateMetrics on its own: TrafficSection rendered with arbitrary props
InitTraffic ==
  /\ ordersRaw = ArrayOf(<<>>) /\ refundsRaw = ArrayOf(<<>>)
  /\ orderItemsRaw = ArrayOf(<<>>) /\ productsRaw = ArrayOf(<<>>)
  /\ sessionsRaw = ArrayOf(<<>>) /\ pageviewsRaw = ArrayOf(<<>>)
  /\ faults = {} /\ capped = TRUE
  /\ InitHook
  /\ \E p \in TrafficInputs : InitTrafficSection(p)

NextTraffic == TrafficRender

SpecTraffic == InitTraffic /\ [][NextTraffic]_vars

-----------------------------------------------------------------------------
(* Claims about calculateMetrics, checked under SpecTraffic *)

Rendered == tRenders > 0

\* C1: for every sessions and pageviews array (orphaned pageviews included)
\* bounceRate lies in [0,100], and it is 0 when totalSessions = 0.
C1_BounceRateInRange ==
  Rendered =>
    /\ NumLe(Zero, trafficMetrics.bounceRate)
    /\ NumLe(trafficMetrics.bounceRate, FromInt(100))
    /\ (trafficMetrics.totalSessions = 0 => trafficMetrics.bounceRate = Zero)

\* the sessions of the sessions array that have exactly one pageview
SessionsWithOnePageview(sessions, pageviews) ==
  {i \in 1..Len(sessions) :
     Cardinality({j \in 1..Len(pageviews) :
                    pageviews[j].website_session_id = sessions[i].website_session_id}) = 1}

\* C2: the bounced-session count equals the number of sessions of the sessions
\* array with exactly one pageview, and bounceRate = count / totalSessions * 100.
C2_BouncedAreSessionsWithOnePageview ==
  Rendered =>
    LET expected == Cardinality(SessionsWithOnePageview(props.sessions, props.pageviews))
    IN /\ BouncedSessions(props.pageviews) = expected
       /\ trafficMetrics.totalSessions > 0 =>
            NumEq(trafficMetrics.bounceRate,
                  JSDiv(expected * 100, trafficMetrics.totalSessions))

\* C3: with totalSessions = 0 every ratio of the traffic section (bounceRate,
\* avgPagesPerSession, the returning visitors percentage and each landing
\* page's share) is 0, never NaN or Infinity.
C3_RatiosZeroWithoutSessions ==
  Rendered /\ trafficMetrics.totalSessions = 0 =>
    /\ NumEq(trafficMetrics.bounceRate, Zero)
    /\ NumEq(trafficMetrics.avgPagesPerSession, Zero)
    /\ NumEq(view.returningVisitors, Zero)
    /\ \A j \in 1..Len(view.landingShares) : NumEq(view.landingShares[j], Zero)

\* the permutations of a sequence
PermutationsOf(s) == {[i \in 1..Len(s) |-> s[f[i]]] : f \in Permutations(1..Len(s))}

ScalarsAgree(m, n) ==
  /\ m.totalSessions = n.totalSessions
  /\ m.uniqueUsers = n.uniqueUsers
  /\ m.bounceRate = n.bounceRate
  /\ m.avgPagesPerSession = n.avgPagesPerSession
  /\ m.deviceCounts = n.deviceCounts
  /\ m.newSessions = n.newSessions
  /\ m.returningSessions = n.returningSessions

\* what calculateMetrics returned in this render (before the JSX sorted
\* sourceData in place)
ReturnedMetrics == calculateMetrics(props.sessions, props.pageviews)

\* C7 as stated: for any permutation of sessions and of pageviews every metric
\* but topLandingPages is unchanged, sourceData, campaignData and timelineData
\* compared as sequences.
C7_OrderIndependentSequences ==
  Rendered =>
    \A s \in PermutationsOf(props.sessions), p \in PermutationsOf(props.pageviews) :
      LET m == calculateMetrics(s, p)
      IN /\ ScalarsAgree(m, trafficMetrics)
         /\ m.sourceData = ReturnedMetrics.sourceData
         /\ m.campaignData = trafficMetrics.campaignData
         /\ m.timelineData = trafficMetrics.timelineData

\* C7 amended: for any permutation of sessions and of pageviews the scalar
\* metrics, deviceCounts and the sequence timelineData are unchanged, and
\* sourceData and campaignData hold the same entries in as many rows; the order
\* of these rows is not part of the statement (it changes with the order of
\* the sessions array).
C7_OrderIndependentEntries ==
  Rendered =>
    \A s \in PermutationsOf(props.sessions), p \in PermutationsOf(props.pageviews) :
      LET m == calculateMetrics(s, p)
      IN /\ ScalarsAgree(m, trafficMetrics)
         /\ Range(m.sourceData) = Range(ReturnedMetrics.sourceData)
         /\ Len(m.sourceData) = Len(ReturnedMetrics.sourceData)
         /\ Range(m.campaignData) = Range(trafficMetrics.campaignData)
         /\ Len(m.campaignData) = Len(trafficMetrics.campaignData)
         /\ m.timelineData = trafficMetrics.timelineData

\* a render whose sessions, reversed, give another sourceData sequence and
\* whose dates are not in ascending order in the input
C7_Witness ==
  /\ Rendered
  /\ Len(props.sessions) >= 2 /\ Len(props.pageviews) >= 2
  /\ Len(trafficMetrics.sourceData) >= 2
  /\ Len(trafficMetrics.campaignData) >= 2
  /\ Len(trafficMetrics.timelineData) >= 2
  /\ TrafficByDate(props.sessions) # trafficMetrics.timelineData

\* C10: timelineData is sorted strictly ascending by date and holds no two
\* entries for the same date (the part of created_at before the first space).
C10_TimelineStrictlyAscending ==
  Rendered =>
    LET t == trafficMetrics.timelineData
    IN /\ \A i, j \in 1..Len(t) :
            i < j => DateValue(t[i].date) < DateValue(t[j].date) /\ t[i].date # t[j].date
       /\ {t[i].date : i \in 1..Len(t)} = {DateOf(props.sessions[i]) : i \in 1..Len(props.sessions)}

\* dates given in an order the sort has to change, one of them twice
C10_Witness ==
  /\ Rendered
  /\ Len(trafficMetrics.timelineData) >= 2
  /\ TrafficByDate(props.sessions) # trafficMetrics.timelineData
  /\ \E j \in 1..Len(trafficMetrics.timelineData) : trafficMetrics.timelineData[j].sessions >= 2

\* the sum of the values of an object that maps keys to numbers
RECURSIVE SumOfValues(_)
SumOfValues(counts) ==
  IF DOMAIN counts = {} THEN 0
  ELSE LET k == CHOOSE k \in DOMAIN counts : TRUE
       IN counts[k] + SumOfValues([k2 \in DOMAIN counts \ {k} |-> counts[k2]])

\* C11: the session counts in deviceCounts (keyed by lower-cased device_type,
\* a missing or empty device_type counted under "unknown") sum to
\* totalSessions, and each key holds the sessions of that device.
C11_DeviceCountsSumToTotal ==
  Rendered =>
    LET counts == trafficMetrics.deviceCounts
        s == props.sessions
    IN /\ SumOfValues(counts) = trafficMetrics.totalSessions
       /\ trafficMetrics.totalSessions = Len(s)
       /\ \A i \in 1..Len(s) :
            (IF s[i].device_type = "" THEN "unknown" ELSE ToLowerCase(s[i].device_type))
              \in DOMAIN counts
       /\ \A d \in DOMAIN counts : counts[d] >= 1

\* three sessions: one without device_type, one whose device_type has to be
\* lower-cased, one desktop
C11_Witness ==
  /\ Rendered
  /\ trafficMetrics.totalSessions = 3
  /\ DOMAIN trafficMetrics.deviceCounts = {"unknown", "mobile", "desktop"}
  /\ \E i \in 1..Len(props.sessions) : props.sessions[i].device_type = "MOBILE"
  /\ \E i \in 1..Len(props.sessions) : props.sessions[i].device_type = ""

\* C12: 0 <= uniqueUsers <= totalSessions, uniqueUsers being the number of
\* distinct user_id values over the sessions.
C12_UniqueUsersWithinSessions ==
  Rendered =>
    /\ 0 <= trafficMetrics.uniqueUsers
    /\ trafficMetrics.uniqueUsers <= trafficMetrics.totalSessions
    /\ trafficMetrics.uniqueUsers =
         Cardinality({props.sessions[i].user_id : i \in 1..Len(props.sessions)})

\* two sessions of the same user
C12_Witness ==
  /\ Rendered
  /\ trafficMetrics.totalSessions = 2
  /\ trafficMetrics.uniqueUsers = 1
  /\ props.sessions[1].user_id = props.sessions[2].user_id

\* the landing page of a session id: the url of its first pageview in input
\* order, "/" when that pageview has no url
LandingUrlOf(pageviews, sid) ==
  LET first == CHOOSE i \in 1..Len(pageviews) :
                 /\ pageviews[i].website_session_id = sid
                 /\ \A j \in 1..(i - 1) : pageviews[j].website_session_id # sid
  IN IF pageviews[first].pageview_url = "" THEN "/" ELSE pageviews[first].pageview_url

\* C13: topLandingPages holds, for each URL, the number of distinct session
\* ids whose first pageview in input order has that URL (a missing URL counted
\* as "/"), each session id contributing exactly once, and the list is sorted
\* descending by that count.
C13_TopLandingPages ==
  Rendered =>
    LET pv == props.pageviews
        top == trafficMetrics.topLandingPages
        ids == {pv[i].website_session_id : i \in 1..Len(pv)}
    IN /\ \A j \in 1..Len(top) :
            top[j].sessions = Cardinality({sid \in ids : LandingUrlOf(pv, sid) = top[j].url})
       /\ {top[j].url : j \in 1..Len(top)} = {LandingUrlOf(pv, sid) : sid \in ids}
       /\ \A i, j \in 1..Len(top) : i # j => top[i].url # top[j].url
       /\ \A i, j \in 1..Len(top) : i < j => top[i].sessions >= top[j].sessions

\* three sessions: the first lands on a pageview without url, the other two on
\* the same page, which the sort moves to the front
C13_Witness ==
  /\ Rendered
  /\ Len(props.pageviews) = 3
  /\ props.pageviews[1].pageview_url = ""
  /\ trafficMetrics.topLandingPages =
       <<[url |-> "/lander", sessions |-> 2], [url |-> "/", sessions |-> 1]>>

\* C14: newSessions counts exactly the sessions whose is_repeat_session is the
\* string "0" and returningSessions exactly those with "1"; a session with any
\* other value is in neither count, so newSessions + returningSessions <=
\* totalSessions, with equality exactly when every session carries "0" or "1".
C14_NewAndReturningPartition ==
  Rendered =>
    LET s == props.sessions
        m == trafficMetrics
    IN /\ m.newSessions = Cardinality({i \in 1..Len(s) : s[i].is_repeat_session = "0"})
       /\ m.returningSessions = Cardinality({i \in 1..Len(s) : s[i].is_repeat_session = "1"})
       /\ m.newSessions + m.returningSessions <= m.totalSessions
       /\ (m.newSessions + m.returningSessions = m.totalSessions)
            <=> (\A i \in 1..Len(s) : s[i].is_repeat_session \in {"0", "1"})

\* a returning session and a session whose is_repeat_session is neither "0"
\* nor "1"
C14_Witness ==
  /\ Rendered
  /\ trafficMetrics.totalSessions = 2
  /\ trafficMetrics.newSessions = 0
  /\ trafficMetrics.returningSessions = 1
  /\ \E i \in 1..2 : props.sessions[i].is_repeat_session \notin {"0", "1"}

-----------------------------------------------------------------------------
(* Claims about useDashboardData, checked under Spec *)

HookRendered == renders > 0

RawOf(name) ==
  CASE name = "orders" -> ordersRaw
    [] name = "orderItems" -> orderItemsRaw
    [] name = "refunds" -> refundsRaw
    [] name = "products" -> productsRaw
    [] name = "sessions" -> sessionsRaw
    [] name = "pageviews" -> pageviewsRaw

DataNames == {"orders", "orderItems", "refunds", "products", "sessions", "pageviews"}

\* the fallback of each computation
FallbackOf(name) == IF name = "metrics" THEN MetricsFallback ELSE <<>>

\* C4: whenever one of the hook's computations throws, the hook returns the
\* zeroed/empty fallback for that value and the error it returns is non-null
\* once loading has completed.
C4_ThrowSurfacesError ==
  HookRendered =>
    /\ CleanThrows => processedData.value = EmptyData
    /\ \A n \in MemoNames \cap faults : memo[n].value = FallbackOf(n)
    /\ faults # {} /\ ~isLoading => error # Null

\* C5: a derived result is not recomputed on a render whose input arrays are
\* the same objects as on the previous render, in the hook (metrics and the
\* four aggregations) and in the traffic section (calculateMetrics).
C5_NoRecomputeOnSameInputs ==
  [][/\ (renders' = renders + 1 /\ renders > 0 /\ processedData'.ref = processedData.ref)
          => \A n \in MemoNames : computeCount'[n] = computeCount[n]
     /\ (tRenders' = tRenders + 1 /\ tRenders > 0
           /\ props'.sessionsRef = props.sessionsRef
           /\ props'.pageviewsRef = props.pageviewsRef)
          => tComputeCount' = tComputeCount]_vars

\* the number of pageviews of session id in an array of pageviews
PageviewsOf(pageviews, id) ==
  Cardinality({j \in 1..Len(pageviews) : pageviews[j].website_session_id = id})

\* each limited array is the first LIMIT_ROWS rows of its raw array
CapIsUniform ==
  \A n \in DataNames :
    /\ IsArray(processedData.limited[n])
    /\ processedData.limited[n].rows =
         (IF IsArray(RawOf(n))
          THEN SubSeq(RawOf(n).rows, 1, Min(LIMIT_ROWS, Len(RawOf(n).rows)))
          ELSE <<>>)

\* C6 as stated: the cap is applied to all six arrays alike, and every session
\* it keeps has as many kept pageviews as it has in the uncapped array (in
\* the version of the hook that has the cap).
C6_CapKeepsJoins ==
  processedData.set /\ capped =>
    /\ CapIsUniform
    /\ \A i \in 1..Len(processedData.limited.sessions.rows) :
         LET id == processedData.limited.sessions.rows[i].website_session_id
         IN PageviewsOf(processedData.limited.pageviews.rows, id)
              = PageviewsOf(pageviewsRaw.rows, id)

\* C6 amended: the cap is applied to all six arrays alike; every session it
\* keeps has at most as many kept pageviews as it has in the uncapped array,
\* and as many when the raw pageviews array has at most LIMIT_ROWS rows.
C6_CapBoundsJoins ==
  processedData.set /\ capped =>
    /\ CapIsUniform
    /\ \A i \in 1..Len(processedData.limited.sessions.rows) :
         LET id == processedData.limited.sessions.rows[i].website_session_id
             kept == PageviewsOf(processedData.limited.pageviews.rows, id)
             all == PageviewsOf(pageviewsRaw.rows, id)
         IN /\ kept <= all
            /\ Len(pageviewsRaw.rows) <= LIMIT_ROWS => kept = all

\* the cap cuts pageviews of a session it keeps: two in the raw array, one kept
C6_Witness ==
  /\ processedData.set /\ capped
  /\ Len(pageviewsRaw.rows) > LIMIT_ROWS
  /\ Len(processedData.limited.pageviews.rows) = LIMIT_ROWS
  /\ \E i \in 1..Len(processedData.limited.sessions.rows) :
       LET id == processedData.limited.sessions.rows[i].website_session_id
       IN /\ PageviewsOf(processedData.limited.pageviews.rows, id) = 1
          /\ PageviewsOf(pageviewsRaw.rows, id) = 2

\* C8: a raw dataset that is no array is treated as empty (its cleaned array
\* is empty) and no exception is thrown anywhere in the hook, the timer
\* callback included.
C8_NonArrayNeverThrows ==
  (\E n \in DataNames : ~IsArray(RawOf(n))) =>
    /\ processedData.set =>
         \A n \in DataNames : ~IsArray(RawOf(n)) => processedData.value[n] = <<>>
    /\ ~uncaught

FinancialZero(m) ==
  /\ m.totalOrders = 0 /\ m.totalRevenue = 0 /\ m.totalRefunds = 0
  /\ m.refundRate = Zero /\ m.aov = Zero /\ m.netRevenue = 0

\* C9 as stated: when the cleaned orders array is empty every financial metric
\* is 0 and the hook's error stays null, whatever refunds and raw orders hold.
C9_EmptyOrdersAllZeroNoError ==
  HookRendered /\ Len(processedData.value.orders) = 0 =>
    /\ FinancialZero(memo["metrics"].value)
    /\ error = Null

\* the check of the sessions in the timer callback passes
SessionsCheckPasses ==
  ~(Len(processedData.value.sessions) = 0 /\ LengthPositive(sessionsRaw))

\* C9 amended: when the cleaned orders array is empty, totalOrders,
\* totalRevenue, refundRate and aov are 0, totalRefunds is the sum of the
\* refunds' amounts (0 if the metrics computation threw) and netRevenue is
\* -totalRefunds; the error stays null if cleaning did not throw, the raw
\* orders have no rows and the sessions check passes, and it is "Failed to
\* load order data" once loading has completed when the raw orders have rows.
C9_EmptyOrders ==
  HookRendered /\ Len(processedData.value.orders) = 0 =>
    LET m == memo["metrics"].value
    IN /\ m.totalOrders = 0 /\ m.totalRevenue = 0
       /\ m.refundRate = Zero /\ m.aov = Zero
       /\ m.totalRefunds = (IF "metrics" \in faults THEN 0
                            ELSE calculateTotalRefunds(processedData.value.refunds))
       /\ m.netRevenue = 0 - m.totalRefunds
       /\ (~CleanThrows /\ ~LengthPositive(ordersRaw) /\ SessionsCheckPasses) => error = Null
       /\ (~isLoading /\ LengthPositive(ordersRaw)) => error = Str("Failed to load order data")

\* loading has completed with no cleaned order although the raw orders have
\* a row: the refunds make totalRefunds positive and netRevenue negative, and
\* the timer has set the error
C9_Witness ==
  /\ HookRendered /\ ~isLoading
  /\ Len(processedData.value.orders) = 0
  /\ LengthPositive(ordersRaw)
  /\ memo["metrics"].value.totalRefunds > 0
  /\ memo["metrics"].value.netRevenue < 0
  /\ error = Str("Failed to load order data")

-----------------------------------------------------------------------------
(* Claims about the loading effect, checked under SpecLive *)

\* C15: if the hook stays mounted, isLoading (initially true) eventually
\* becomes false after the loading timer fires, and once false it never
\* becomes true again, for every outcome of data processing (success, cleaning
\* failure, empty or non-array raw data).
C15_LoadingCompletes ==
  /\ (<>[]mounted) => <>(~isLoading)
  /\ [][~isLoading => ~isLoading']_vars


\* C16: if cleaning fails and sets an error message during processing, that
\* same message is still the hook's error after the loading timer has fired:
\* the loading-completion check neither overwrites it nor clears it to null.
C16_CleaningErrorKept ==
  (HookRendered /\ CleanThrows) => error = ProcessError

\* C17: the loading effect's feedback loop reaches quiescence: at most one
\* timer is pending at a time, at most two timers are ever scheduled, and
\* eventually no timer is pending, no re-render is scheduled and error and
\* isLoading change no more.
C17_LoadingLoopQuiesces ==
  /\ [](Cardinality(timers) <= 1)
  /\ [](nextTimerId <= 3)
  /\ <>[](timers = {} /\ ~pendingRender)
  /\ <>[][error' = error /\ isLoading' = isLoading]_vars

\* the first timer has set an error, the changed error has re-run the effect,
\* and the second timer has fired and left the state as it was
C17_Witness ==
  /\ mounted /\ ~isLoading
  /\ nextTimerId = 3
  /\ timers = {} /\ ~pendingRender
  /\ error = Str("Failed to load session data")

====
